---------------------------- MODULE Spec2Model ----------------------------
(***************************************************************************)
(* Learn / replay motor controller (the L293D + Bluetooth sketch).         *)
(*                                                                         *)
(* The sketch keeps its state in globals (mode, commandList, commandCount, *)
(* replayIndex, commandStartTime, isReplaying) and in the output pins of   *)
(* the motor driver.  loop() is the only operation: it optionally reads    *)
(* one line from the Bluetooth link, handles it, and then, in replay mode, *)
(* runs one step of the non-blocking replay scheduler against millis().    *)
(*                                                                         *)
(* A line is a sequence of one-character strings.  `unsigned long` is      *)
(* 32 bits wide on the target; the model keeps the modular arithmetic but  *)
(* with ULONG_BITS bits, because the values must fit the checker's         *)
(* integers.  MAX_COMMANDS is 100 in the sketch and is scaled down the     *)
(* same way.                                                               *)
(***************************************************************************)
EXTENDS Integers, Sequences, FiniteSets, TLC

\* Width of `unsigned long` in the model (32 on the target).
ULONG_BITS == 10

\* Capacity of commandList (100 in the sketch, part_000 line 18).
MAX_COMMANDS == 2

ULONG_MOD == 2 ^ ULONG_BITS

\* Granule of the clock in the general specification: a quarter of the
\* clock's range, so that the clock wraps after four granules.
Quantum == 2 ^ (ULONG_BITS - 2)

LOW == 0
HIGH == 1

\* mode: 0 for learning, 1 for replay, -1 for idle
IDLE == -1
LEARN == 0
REPLAY == 1

\* The value of `command` in an iteration of loop() that found no input.
NoLine == <<"<none>">>

(***************************************************************************)
(* String helpers (Arduino String / avr-libc).                             *)
(***************************************************************************)
Lower == <<"a","b","c","d","e","f","g","h","i","j","k","l","m",
           "n","o","p","q","r","s","t","u","v","w","x","y","z">>
Upper == <<"A","B","C","D","E","F","G","H","I","J","K","L","M",
           "N","O","P","Q","R","S","T","U","V","W","X","Y","Z">>
Digits == <<"0","1","2","3","4","5","6","7","8","9">>

\* toupper(c)
ToUpper(c) ==
    IF \E i \in 1..26 : Lower[i] = c
    THEN Upper[CHOOSE i \in 1..26 : Lower[i] = c]
    ELSE c

\* isspace(c): space, \t, \n, \v (0x0b, written as the character itself),
\* \f and \r.
IsSpace(c) == c \in {" ", "\t", "\n", "", "\f", "\r"}

IsDigit(c) == \E i \in 1..10 : Digits[i] = c

DigitVal(c) == (CHOOSE i \in 1..10 : Digits[i] = c) - 1

RECURSIVE TrimLeft(_)
TrimLeft(s) ==
    IF s # <<>> /\ IsSpace(Head(s)) THEN TrimLeft(Tail(s)) ELSE s

RECURSIVE TrimRight(_)
TrimRight(s) ==
    IF s # <<>> /\ IsSpace(s[Len(s)])
    THEN TrimRight(SubSeq(s, 1, Len(s) - 1))
    ELSE s

\* String::trim()
Trim(s) == TrimRight(TrimLeft(s))

\* String::equalsIgnoreCase(t)
EqualsIgnoreCase(s, t) ==
    /\ Len(s) = Len(t)
    /\ \A i \in 1..Len(s) : ToUpper(s[i]) = ToUpper(t[i])

\* String::indexOf(c): 0-based index of the first c, -1 when there is none.
IndexOf(s, c) ==
    IF \E i \in 1..Len(s) : s[i] = c
    THEN (CHOOSE i \in 1..Len(s) :
             s[i] = c /\ \A j \in 1..(i - 1) : s[j] # c) - 1
    ELSE -1

\* Variant for C12: the substring starts at the separator itself.
Substring_FromSeparator(s, from) ==
    IF from - 1 >= Len(s) THEN <<>> ELSE SubSeq(s, from, Len(s))

\* String::substring(from): the characters from 0-based index `from` on.
Substring(s, from) ==
    IF from >= Len(s) THEN <<>> ELSE SubSeq(s, from + 1, Len(s))

RECURSIVE ParseDigits(_, _)
ParseDigits(s, acc) ==
    IF s # <<>> /\ IsDigit(Head(s))
    THEN ParseDigits(Tail(s), acc * 10 + DigitVal(Head(s)))
    ELSE acc

\* String::toInt() (atol): leading white space, an optional sign, then the
\* longest run of digits; 0 when there is no digit.
ToInt(s) ==
    LET t == TrimLeft(s)
    IN  IF t # <<>> /\ Head(t) = "-" THEN 0 - ParseDigits(Tail(t), 0)
        ELSE IF t # <<>> /\ Head(t) = "+" THEN ParseDigits(Tail(t), 0)
        ELSE ParseDigits(t, 0)

\* Conversion of a long to unsigned long.
ToULong(n) == n % ULONG_MOD

\* Unsigned subtraction a - b.
USub(a, b) == (a - b) % ULONG_MOD

KwLearn == <<"L","E","A","R","N">>
KwReplay == <<"R","E","P","L","A","Y">>
KwStop == <<"S","T","O","P">>

(***************************************************************************)
(* State.                                                                  *)
(***************************************************************************)
VARIABLES
    mode,              \* -1 idle, 0 learn, 1 replay
    commandList,       \* [0..MAX_COMMANDS-1 -> [action, duration]]
    commandCount,
    replayIndex,
    commandStartTime,  \* 0 doubles as "no step started"
    isReplaying,
    motor,             \* the driver's pins: IN1..IN4 and the two PWM duties
    now,               \* millis()
    command,           \* the line handled by the last loop(), trimmed
    out,               \* the notices the last loop() printed
    drives,            \* history: per step, the drive commands issued by
                       \* the replay in progress or just finished (0, 1,
                       \* or 2 for more); cleared by LEARN, STOP, REPLAY
    script             \* lines still to be fed (scenario specification)

vars == <<mode, commandList, commandCount, replayIndex, commandStartTime,
          isReplaying, motor, now, command, out, drives, script>>

Slots == 0..(MAX_COMMANDS - 1)

\* The controller's globals and pins as one value.
Cur ==
    [mode |-> mode, commandList |-> commandList,
     commandCount |-> commandCount, replayIndex |-> replayIndex,
     commandStartTime |-> commandStartTime, isReplaying |-> isReplaying,
     motor |-> motor, out |-> <<>>, drives |-> drives]

\* Command commandList[MAX_COMMANDS] is zero-initialised global storage.
NoCommand == [action |-> "\\0", duration |-> 0]

(***************************************************************************)
(* Motor driver.                                                           *)
(***************************************************************************)
SetLeftMotor(m, speed, direction) ==
    IF direction = HIGH
    THEN [m EXCEPT !.IN1 = HIGH, !.IN2 = LOW, !.left = speed]
    ELSE [m EXCEPT !.IN1 = LOW, !.IN2 = HIGH, !.left = speed]

SetRightMotor(m, speed, direction) ==
    IF direction = HIGH
    THEN [m EXCEPT !.IN3 = HIGH, !.IN4 = LOW, !.right = speed]
    ELSE [m EXCEPT !.IN3 = LOW, !.IN4 = HIGH, !.right = speed]

StopMotors(s) ==
    [s EXCEPT !.motor = [@ EXCEPT !.left = 0, !.right = 0],
              !.out = Append(@, "Motors stopped.")]

\* Variant for C16: the Left and Right cases are exchanged.
ActionPins_LeftRightSwapped(m, action) ==
    CASE action = "F" -> SetRightMotor(SetLeftMotor(m, 150, HIGH), 150, HIGH)
      [] action = "B" -> SetRightMotor(SetLeftMotor(m, 150, LOW), 150, LOW)
      [] action = "R" -> SetRightMotor(SetLeftMotor(m, 0, LOW), 150, HIGH)
      [] action = "L" -> SetRightMotor(SetLeftMotor(m, 150, HIGH), 0, LOW)
      [] OTHER -> m

\* The pins a recognised action leaves behind.
ActionPins(m, action) ==
    CASE action = "F" -> SetRightMotor(SetLeftMotor(m, 150, HIGH), 150, HIGH)
      [] action = "B" -> SetRightMotor(SetLeftMotor(m, 150, LOW), 150, LOW)
      [] action = "L" -> SetRightMotor(SetLeftMotor(m, 0, LOW), 150, HIGH)
      [] action = "R" -> SetRightMotor(SetLeftMotor(m, 150, HIGH), 0, LOW)
      [] OTHER -> m

\* executeCommand(action, duration): duration is not used by the body.
ExecuteCommand(s, action, duration) ==
    IF action \in {"F", "B", "L", "R"}
    THEN [s EXCEPT !.motor = ActionPins(@, action)]
    ELSE [s EXCEPT !.out = Append(@, "Unknown action")]

(***************************************************************************)
(* Command handling: the first half of loop().                             *)
(***************************************************************************)
\* Variant for C10: LEARN that forgets to reset commandCount.
HandleLearn_KeepCount(s) ==
    [s EXCEPT !.mode = LEARN, !.drives = [i \in Slots |-> 0],
              !.out = Append(@, "Mode set to LEARN")]

HandleLearn(s) ==
    [s EXCEPT !.mode = LEARN, !.commandCount = 0,
              !.drives = [i \in Slots |-> 0],
              !.out = Append(@, "Mode set to LEARN")]

\* Variant for C11: REPLAY that does not look at commandCount.
HandleReplay_NoEmptyCheck(s) ==
    [s EXCEPT !.mode = REPLAY, !.replayIndex = 0, !.isReplaying = TRUE,
              !.drives = [i \in Slots |-> 0],
              !.out = Append(@, "Mode set to REPLAY")]

HandleReplay(s) ==
    IF s.commandCount = 0
    THEN [s EXCEPT !.out = Append(@, "No commands to replay.")]
    ELSE [s EXCEPT !.mode = REPLAY, !.replayIndex = 0, !.isReplaying = TRUE,
                   !.drives = [i \in Slots |-> 0],
                   !.out = Append(@, "Mode set to REPLAY")]

\* Variant for C9: STOP that only changes the mode.
HandleStop_NoMotorStop(s) ==
    [s EXCEPT !.mode = IDLE, !.drives = [i \in Slots |-> 0],
              !.out = Append(@, "STOP command received.")]

HandleStop(s) ==
    LET s1 == StopMotors(s)
    IN  [s1 EXCEPT !.mode = IDLE, !.drives = [i \in Slots |-> 0],
                   !.out = Append(@, "STOP command received.")]

\* Variant for C4: the separator is not checked; a line without ':' is
\* stored with the duration toInt() finds at its start.
HandleAction_NoSeparatorCheck(s, cmd) ==
    IF Len(cmd) >= 1
    THEN LET action == ToUpper(cmd[1])
             duration ==
                 ToULong(ToInt(Substring(cmd, IndexOf(cmd, ":") + 1)))
         IN  IF s.commandCount < MAX_COMMANDS
             THEN ExecuteCommand(
                      [s EXCEPT
                         !.commandList[s.commandCount] =
                             [action |-> action, duration |-> duration],
                         !.commandCount = @ + 1,
                         !.out = Append(@, "Stored command")],
                      action, duration)
             ELSE [s EXCEPT !.out = Append(@, "Command list is full.")]
    ELSE [s EXCEPT !.out = Append(@, "Invalid command.")]

\* Variant for C13: the capacity test is off by one.
HandleAction_OffByOneCapacity(s, cmd) ==
    IF Len(cmd) >= 2
    THEN LET action == ToUpper(cmd[1])
             separatorIndex == IndexOf(cmd, ":")
         IN  IF separatorIndex # -1
             THEN LET duration ==
                          ToULong(ToInt(Substring(cmd, separatorIndex + 1)))
                  IN  IF s.commandCount <= MAX_COMMANDS
                      THEN ExecuteCommand(
                               [s EXCEPT
                                  !.commandList =
                                      [i \in Slots |->
                                          IF i = s.commandCount
                                          THEN [action |-> action,
                                                duration |-> duration]
                                          ELSE s.commandList[i]],
                                  !.commandCount = @ + 1,
                                  !.out = Append(@, "Stored command")],
                               action, duration)
                      ELSE [s EXCEPT !.out = Append(@, "Command list is full.")]
             ELSE [s EXCEPT !.out = Append(@, "Invalid command format.")]
    ELSE [s EXCEPT !.out = Append(@, "Invalid command.")]

\* The branch `else if (mode == 0)`: store the command and execute it.
HandleAction(s, cmd) ==
    IF Len(cmd) >= 2
    THEN LET action == ToUpper(cmd[1])
             separatorIndex == IndexOf(cmd, ":")
         IN  IF separatorIndex # -1
             THEN LET duration ==
                          ToULong(ToInt(Substring(cmd, separatorIndex + 1)))
                  IN  IF s.commandCount < MAX_COMMANDS
                      THEN ExecuteCommand(
                               [s EXCEPT
                                  !.commandList[s.commandCount] =
                                      [action |-> action,
                                       duration |-> duration],
                                  !.commandCount = @ + 1,
                                  !.out = Append(@, "Stored command")],
                               action, duration)
                      ELSE [s EXCEPT !.out = Append(@, "Command list is full.")]
             ELSE [s EXCEPT !.out = Append(@, "Invalid command format.")]
    ELSE [s EXCEPT !.out = Append(@, "Invalid command.")]

\* Variant for C14: action lines are stored in every mode.
HandleCommand_AnyMode(s, cmd) ==
    IF EqualsIgnoreCase(cmd, KwLearn) THEN HandleLearn(s)
    ELSE IF EqualsIgnoreCase(cmd, KwReplay) THEN HandleReplay(s)
    ELSE IF EqualsIgnoreCase(cmd, KwStop) THEN HandleStop(s)
    ELSE HandleAction(s, cmd)

HandleCommand(s, cmd) ==
    IF EqualsIgnoreCase(cmd, KwLearn) THEN HandleLearn(s)
    ELSE IF EqualsIgnoreCase(cmd, KwReplay) THEN HandleReplay(s)
    ELSE IF EqualsIgnoreCase(cmd, KwStop) THEN HandleStop(s)
    ELSE IF s.mode = LEARN THEN HandleAction(s, cmd)
    ELSE s

(***************************************************************************)
(* Replay scheduler: the second half of loop().                            *)
(***************************************************************************)
Bump(n) == IF n < 2 THEN n + 1 ELSE n

StartStep(s, currentTime) ==
    LET currentCommand == s.commandList[s.replayIndex]
        s1 == ExecuteCommand(s, currentCommand.action, currentCommand.duration)
    IN  [s1 EXCEPT !.commandStartTime = currentTime,
                   !.drives[s.replayIndex] = Bump(@),
                   !.out = Append(@, "Replaying command")]

\* Variant for C6: the boundary is exclusive on the finishing side.
DurationPassed_Strict(s, currentTime) ==
    USub(currentTime, s.commandStartTime)
        > s.commandList[s.replayIndex].duration

DurationPassed(s, currentTime) ==
    USub(currentTime, s.commandStartTime)
        >= s.commandList[s.replayIndex].duration

\* Variant for C18: the step is stopped and its start time cleared, but
\* the index is not advanced.
FinishStep_NoAdvance(s) ==
    LET s1 == StopMotors(s)
    IN  [s1 EXCEPT !.commandStartTime = 0]

\* Variant for C15: the step is advanced without stopping the motors.
FinishStep_NoStop(s) ==
    [s EXCEPT !.replayIndex = @ + 1, !.commandStartTime = 0]

FinishStep(s) ==
    LET s1 == StopMotors(s)
    IN  [s1 EXCEPT !.replayIndex = @ + 1, !.commandStartTime = 0]

\* Variant for C20: the end of the replay clears the flag but not the mode.
FinishReplay_KeepMode(s) ==
    [s EXCEPT !.isReplaying = FALSE,
              !.out = Append(@, "Replay finished.")]

FinishReplay(s) ==
    [s EXCEPT !.mode = IDLE, !.isReplaying = FALSE,
              !.out = Append(@, "Replay finished.")]

ReplayTick(s, currentTime) ==
    IF s.mode # REPLAY THEN s
    ELSE IF s.isReplaying /\ s.replayIndex < s.commandCount
    THEN IF s.commandStartTime = 0 THEN StartStep(s, currentTime)
         ELSE IF DurationPassed(s, currentTime) THEN FinishStep(s)
         ELSE s
    ELSE IF s.isReplaying /\ s.replayIndex >= s.commandCount
    THEN FinishReplay(s)
    ELSE s

(***************************************************************************)
(* loop().                                                                 *)
(***************************************************************************)
Install(s, t, cmd) ==
    /\ mode' = s.mode
    /\ commandList' = s.commandList
    /\ commandCount' = s.commandCount
    /\ replayIndex' = s.replayIndex
    /\ commandStartTime' = s.commandStartTime
    /\ isReplaying' = s.isReplaying
    /\ motor' = s.motor
    /\ out' = s.out
    /\ drives' = s.drives
    /\ now' = t
    /\ command' = cmd

\* One iteration of loop() that finds `line` on the link, `d` ms after the
\* previous iteration.
LoopBody(line, d) ==
    LET t == (now + d) % ULONG_MOD
        cmd == Trim(line)
        s1 == HandleCommand([Cur EXCEPT !.out = <<"Received command">>], cmd)
    IN  Install(ReplayTick(s1, t), t, cmd)

\* One iteration of loop() with nothing to read.
LoopIdle(d) ==
    LET t == (now + d) % ULONG_MOD
    IN  Install(ReplayTick(Cur, t), t, NoLine)

Lines ==
    { <<"L","E","A","R","N">>,
      <<"r","e","p","l","a","y">>,
      <<"\f"," ","S","t","o","p","","\r">>,
      <<"F",":","2","5","6">>,
      <<"l",":","0">>,
      <<"X",":","5","1","2">>,
      <<"F">>,
      <<"\r">>,
      <<"F","2","5","6">> }

Deltas == {0, Quantum, 2 * Quantum}

InitController ==
    /\ mode = IDLE
    /\ commandList = [i \in Slots |-> NoCommand]
    /\ commandCount = 0
    /\ replayIndex = 0
    /\ commandStartTime = 0
    /\ isReplaying = FALSE
    /\ motor = [IN1 |-> LOW, IN2 |-> LOW, IN3 |-> LOW, IN4 |-> LOW,
                left |-> 0, right |-> 0]
    /\ now = 0
    /\ command = NoLine
    /\ out = <<>>
    /\ drives = [i \in Slots |-> 0]

Init == InitController /\ script = <<>>

ReceiveLine ==
    \E line \in Lines, d \in Deltas :
        LoopBody(line, d) /\ UNCHANGED script

Poll ==
    \E d \in Deltas : LoopIdle(d) /\ UNCHANGED script

Next == ReceiveLine \/ Poll

Spec == Init /\ [][Next]_vars

(***************************************************************************)
(* Scheduling.  The Arduino core calls loop() forever and the timer        *)
(* interrupt keeps millis() advancing, so iterations that read a later     *)
(* clock value keep happening whether or not input arrives.                *)
(***************************************************************************)
PollAdvance ==
    \E d \in Deltas \ {0} : LoopIdle(d) /\ UNCHANGED script

SpecLive == Init /\ [][Next]_vars /\ WF_vars(PollAdvance)

(***************************************************************************)
(* The scenario of the design notes: the lines LEARN, F:200, L:300 and     *)
(* REPLAY, then iterations of loop() 100 ms apart with nothing to read.    *)
(* The operator's pauses between the lines decide the clock value at which *)
(* the replay starts; the longest pause lets the clock wrap before it.     *)
(***************************************************************************)
ScenarioTicks == 9

ScenarioLines ==
    << <<"L","E","A","R","N">>,
       <<"F",":","2","0","0">>,
       <<"L",":","3","0","0">>,
       <<"R","E","P","L","A","Y">> >>

ScenarioScript == ScenarioLines \o [i \in 1..ScenarioTicks |-> NoLine]

FeedDelays == {0, 100, 200, ULONG_MOD - 100}

InitScenario == InitController /\ script = ScenarioScript

Feed ==
    /\ script # <<>>
    /\ Head(script) # NoLine
    /\ \E d \in FeedDelays : LoopBody(Head(script), d)
    /\ script' = Tail(script)

Tick ==
    /\ script # <<>>
    /\ Head(script) = NoLine
    /\ LoopIdle(100)
    /\ script' = Tail(script)

NextScenario == Feed \/ Tick

SpecScenario == InitScenario /\ [][NextScenario]_vars


(***************************************************************************)
(* The actuator mapping exercised through loop(): every action character   *)
(* the mapping distinguishes, and one it does not, recorded in learn mode  *)
(* and replayed.                                                           *)
(***************************************************************************)
MappingLines ==
    { <<"L","E","A","R","N">>,
      <<"R","E","P","L","A","Y">>,
      <<"S","T","O","P">>,
      <<"F",":","0">>,
      <<"b",":","0">>,
      <<"L",":","0">>,
      <<"r",":","0">>,
      <<"X",":","0">> }

ReceiveMappingLine ==
    \E line \in MappingLines :
        LoopBody(line, Quantum) /\ UNCHANGED script

PollMapping ==
    LoopIdle(Quantum) /\ UNCHANGED script

NextMapping == ReceiveMappingLine \/ PollMapping

SpecMapping == Init /\ [][NextMapping]_vars

(***************************************************************************)
(* Vocabulary of the properties.                                           *)
(***************************************************************************)
Printed(o, notice) == \E i \in 1..Len(o) : o[i] = notice

IsKeyword(c, kw) == c # NoLine /\ EqualsIgnoreCase(c, kw)

IsModeCommand(c) ==
    IsKeyword(c, KwLearn) \/ IsKeyword(c, KwReplay) \/ IsKeyword(c, KwStop)

Stopped(m) == m.left = 0 /\ m.right = 0

\* The recorded steps: the first commandCount entries of commandList.
Buffer == [i \in 0..(commandCount - 1) |-> commandList[i]]

\* The globals and pins, without the clock and the observation variables.
Controller ==
    <<mode, commandList, commandCount, replayIndex, commandStartTime,
      isReplaying, motor>>

\* The last loop() accepted a REPLAY command.
ReplayAccepted == IsKeyword(command, KwReplay) /\ Printed(out, "Mode set to REPLAY")

(***************************************************************************)
(* C1. Whenever a REPLAY command is accepted, from any reachable state,    *)
(* the cursor is reset to (0, unset), so that the first scheduler tick of  *)
(* the new replay (the one loop() runs right after handling the command)   *)
(* issues the drive command for step 0 and leaves the index at 0.          *)
(***************************************************************************)
C1_ReplayStartsAtStepZero ==
    ReplayAccepted =>
        /\ replayIndex = 0
        /\ Printed(out, "Replaying command")
        /\ drives[0] = 1

(***************************************************************************)
(* C2. STOP or LEARN received in replay mode aborts the playback within    *)
(* the handling of that command: afterwards the mode is not replay and     *)
(* both motor speeds are 0; and no tick drives a recorded step while the   *)
(* mode is not replay and no REPLAY command is being handled.              *)
(***************************************************************************)
C2_StopOrLearnAbortsReplay ==
    [][ /\ ( /\ mode = REPLAY
             /\ (IsKeyword(command', KwStop) \/ IsKeyword(command', KwLearn)) )
           => (mode' # REPLAY /\ Stopped(motor'))
        /\ (mode # REPLAY /\ ~IsKeyword(command', KwReplay))
           => ~Printed(out', "Replaying command") ]_vars

(***************************************************************************)
(* C3. Every step stored in the buffer has an action among F, B, L, R, and *)
(* the "unknown action" branch of the actuator mapping is never reached.   *)
(***************************************************************************)
C3_OnlyKnownActionsStored ==
    /\ \A i \in 0..(commandCount - 1) :
           commandList[i].action \in {"F", "B", "L", "R"}
    /\ ~Printed(out, "Unknown action")

(***************************************************************************)
(* C4. In learn mode a line that is not a mode command and that has no ':' *)
(* or fewer than 2 characters is a format error: it is reported, and the   *)
(* buffer (contents and length), the mode and the motor pins are left as   *)
(* they were.                                                              *)
(***************************************************************************)
IsMalformed(c) ==
    /\ c # NoLine
    /\ ~IsModeCommand(c)
    /\ (Len(c) < 2 \/ \A i \in 1..Len(c) : c[i] # ":")

C4_FormatErrorChangesNothing ==
    [][ (mode = LEARN /\ IsMalformed(command')) =>
            /\ mode' = LEARN
            /\ commandCount' = commandCount
            /\ commandList' = commandList
            /\ motor' = motor
            /\ \/ Printed(out', "Invalid command.")
               \/ Printed(out', "Invalid command format.") ]_vars

\* A format error was reported with steps recorded and the motors running.
C4_Witness ==
    /\ mode = LEARN
    /\ IsMalformed(command)
    /\ commandCount > 0
    /\ ~Stopped(motor)

(***************************************************************************)
(* C5. After an action line is accepted in learn mode the motors are       *)
(* driven for the step's duration only: an iteration of loop() with no     *)
(* input, run once the duration has elapsed since the acceptance, finds    *)
(* or leaves the motors stopped.                                           *)
(***************************************************************************)
C5_LearnDriveEndsAfterDuration ==
    [][ ( /\ mode = LEARN
          /\ Printed(out, "Stored command")
          /\ command' = NoLine
          /\ USub(now', now) >= commandList[commandCount - 1].duration )
        => Stopped(motor') ]_vars


(***************************************************************************)
(* C7. An uninterrupted replay drives each recorded step exactly once, in  *)
(* buffer order, and then ends in idle mode with the motors stopped and    *)
(* one "finished" notice: when the notice is printed, every recorded step  *)
(* has had exactly one drive command since the REPLAY that started it.     *)
(***************************************************************************)
C7_EachStepDrivenOnce ==
    Printed(out, "Replay finished.") =>
        /\ mode = IDLE
        /\ Stopped(motor)
        /\ Cardinality({i \in 1..Len(out) : out[i] = "Replay finished."}) = 1
        /\ \A i \in 0..(commandCount - 1) : drives[i] = 1

(***************************************************************************)
(* C8. A recorded step of duration 0 that a tick has just started is       *)
(* finished (motors stopped, index advanced) by the very next tick,        *)
(* whatever timestamp the start tick read; it is never finished by the     *)
(* start tick itself.                                                      *)
(***************************************************************************)
C8_ZeroDurationEndsNextTick ==
    [][ ( /\ mode = REPLAY
          /\ Printed(out, "Replaying command")
          /\ commandList[replayIndex].duration = 0
          /\ ~IsModeCommand(command') )
        => ( /\ replayIndex' = replayIndex + 1
             /\ Stopped(motor')
             /\ ~Printed(out', "Replaying command") ) ]_vars

(***************************************************************************)
(* C9. STOP, in any state, leaves the mode idle and both motor speeds 0;   *)
(* a STOP that follows a STOP changes nothing in the controller.           *)
(***************************************************************************)
C9_StopIdempotent ==
    [][ IsKeyword(command', KwStop) =>
            /\ mode' = IDLE
            /\ Stopped(motor')
            /\ IsKeyword(command, KwStop) => Controller' = Controller ]_vars

\* STOP arrived in the middle of a replayed step.
C9_Witness ==
    /\ IsKeyword(command, KwStop)
    /\ mode = IDLE
    /\ isReplaying
    /\ commandStartTime # 0
    /\ replayIndex < commandCount
    /\ Stopped(motor)

(***************************************************************************)
(* C10. LEARN, in any state, leaves the mode learn and the buffer length   *)
(* 0; a LEARN that follows a LEARN leaves them so.                         *)
(***************************************************************************)
C10_LearnIdempotent ==
    [][ IsKeyword(command', KwLearn) =>
            /\ mode' = LEARN
            /\ commandCount' = 0
            /\ Buffer' = <<>>
            /\ IsKeyword(command, KwLearn) => Controller' = Controller ]_vars

\* LEARN arrived during a replay of a full buffer.
C10_Witness ==
    /\ IsKeyword(command, KwLearn)
    /\ mode = LEARN
    /\ commandCount = 0
    /\ isReplaying
    /\ \A i \in Slots : commandList[i] # NoCommand


(***************************************************************************)
(* C6. The scenario LEARN, F:200, L:300, REPLAY and ticks 100 ms apart.    *)
(* TickNo counts the ticks after the one that loop() runs while handling   *)
(* REPLAY (tick 0, at clock value ReplayT0).                               *)
(***************************************************************************)
LinesFed == Len(script) <= ScenarioTicks

TickNo == ScenarioTicks - Len(script)

ReplayT0 == USub(now, 100 * TickNo)

\* The pins are those the action's drive command sets.
Driving(a) == motor = ActionPins(motor, a)

ScenarioBuffer ==
    /\ commandCount = 2
    /\ commandList[0] = [action |-> "F", duration |-> 200]
    /\ commandList[1] = [action |-> "L", duration |-> 300]

\* As written: t0 drive(F); t100 still F; t200 stop, advance and drive(L);
\* t300 and t400 still L; t500 stop, advance, finished and idle.
C6_ScenarioAsWritten ==
    LinesFed =>
        /\ ScenarioBuffer
        /\ TickNo \in {0, 1} => (mode = REPLAY /\ replayIndex = 0 /\ Driving("F"))
        /\ TickNo \in {2, 3, 4} =>
               (mode = REPLAY /\ replayIndex = 1 /\ Driving("L"))
        /\ TickNo = 5 =>
               /\ mode = IDLE
               /\ Stopped(motor)
               /\ replayIndex = 2
               /\ Printed(out, "Replay finished.")

\* As amended: a transition takes a tick of its own (the tick that finds a
\* step's duration elapsed only stops and advances; the next tick drives
\* the following step, and the tick after the last stop reports the end),
\* and a step whose start tick reads the clock value 0 is driven again by
\* the following tick, which delays everything after it by one tick.
RedoF == IF ReplayT0 = 0 THEN 1 ELSE 0

RedoL == IF (ReplayT0 + 100 * (RedoF + 3)) % ULONG_MOD = 0 THEN 1 ELSE 0

C6_ScenarioAsCoded ==
    LinesFed =>
        /\ ScenarioBuffer
        /\ TickNo <= RedoF + 1 =>
               /\ mode = REPLAY /\ replayIndex = 0 /\ Driving("F")
               /\ Printed(out, "Replaying command") <=> TickNo <= RedoF
        /\ TickNo = RedoF + 2 =>
               /\ mode = REPLAY /\ replayIndex = 1 /\ Stopped(motor)
               /\ commandStartTime = 0
               /\ Printed(out, "Motors stopped.")
        /\ (TickNo >= RedoF + 3 /\ TickNo <= RedoF + RedoL + 5) =>
               /\ mode = REPLAY /\ replayIndex = 1 /\ Driving("L")
               /\ Printed(out, "Replaying command") <=> TickNo <= RedoF + RedoL + 3
        /\ TickNo = RedoF + RedoL + 6 =>
               /\ mode = REPLAY /\ replayIndex = 2 /\ Stopped(motor)
               /\ Printed(out, "Motors stopped.")
        /\ TickNo >= RedoF + RedoL + 7 =>
               /\ mode = IDLE /\ replayIndex = 2 /\ Stopped(motor)
               /\ Printed(out, "Replay finished.") <=> TickNo = RedoF + RedoL + 7

\* The replay started at a clock value other than 0 and has just ended.
C6_Witness ==
    /\ LinesFed
    /\ ReplayT0 # 0
    /\ RedoL = 0
    /\ TickNo = 7
    /\ mode = IDLE
    /\ Printed(out, "Replay finished.")


(***************************************************************************)
(* C11. REPLAY received while the buffer length is 0 never changes the     *)
(* mode (idle stays idle, learn stays learn) and leaves the buffer and the *)
(* motor pins as they were.                                                *)
(***************************************************************************)
C11_EmptyReplayRefused ==
    [][ (IsKeyword(command', KwReplay) /\ commandCount = 0) =>
            /\ mode' = mode
            /\ mode' \in {IDLE, LEARN}
            /\ commandCount' = 0
            /\ commandList' = commandList
            /\ motor' = motor
            /\ Printed(out', "No commands to replay.") ]_vars

\* REPLAY was refused in learn mode with the motors still running.
C11_Witness ==
    /\ IsKeyword(command, KwReplay)
    /\ Printed(out, "No commands to replay.")
    /\ mode = LEARN
    /\ commandCount = 0
    /\ ~Stopped(motor)

(***************************************************************************)
(* C12. A valid line <A>:<ms> (A one of F, B, L, R in either case, ms a    *)
(* run of decimal digits) received in learn mode while the length is below *)
(* the capacity is appended: the length grows by exactly 1, the new last   *)
(* entry is (A, ms), and the earlier entries are unchanged.                *)
(***************************************************************************)
IsValidActionLine(c) ==
    /\ c # NoLine
    /\ Len(c) >= 3
    /\ ToUpper(c[1]) \in {"F", "B", "L", "R"}
    /\ c[2] = ":"
    /\ \A i \in 3..Len(c) : IsDigit(c[i])

\* The number a run of decimal digits denotes, least significant digit last.
RECURSIVE Decimal(_)
Decimal(ds) ==
    IF ds = <<>> THEN 0
    ELSE 10 * Decimal(SubSeq(ds, 1, Len(ds) - 1)) + DigitVal(ds[Len(ds)])

C12_ValidLineAppended ==
    [][ ( /\ mode = LEARN
          /\ IsValidActionLine(command')
          /\ commandCount < MAX_COMMANDS )
        => /\ commandCount' = commandCount + 1
           /\ commandList'[commandCount] =
                  [action |-> ToUpper(command'[1]),
                   duration |-> Decimal(SubSeq(command', 3, Len(command')))]
           /\ \A i \in 0..(commandCount - 1) :
                  commandList'[i] = commandList[i]
           /\ mode' = LEARN ]_vars

\* A second step was appended after a first one, in lower case.
C12_Witness ==
    /\ mode = LEARN
    /\ IsValidActionLine(command)
    /\ Printed(out, "Stored command")
    /\ commandCount = 2
    /\ commandList[0] = [action |-> "F", duration |-> 256]
    /\ commandList[1] = [action |-> "L", duration |-> 0]

(***************************************************************************)
(* C13. The buffer length never exceeds the capacity MAX_COMMANDS; a line  *)
(* that passes the format checks in learn mode when the buffer is full is  *)
(* rejected: length and contents unchanged, mode still learn, motor pins   *)
(* not touched by that line.                                               *)
(***************************************************************************)
HasActionFormat(c) ==
    /\ c # NoLine
    /\ ~IsModeCommand(c)
    /\ Len(c) >= 2
    /\ \E i \in 1..Len(c) : c[i] = ":"

C13_CapacityRespected ==
    /\ commandCount <= MAX_COMMANDS
    /\ [][ /\ commandCount' <= MAX_COMMANDS
           /\ ( /\ mode = LEARN
                /\ HasActionFormat(command')
                /\ commandCount = MAX_COMMANDS )
              => /\ commandCount' = commandCount
                 /\ commandList' = commandList
                 /\ mode' = LEARN
                 /\ motor' = motor
                 /\ Printed(out', "Command list is full.") ]_vars

\* F:256 was rejected by a full buffer while the pins were not driving F.
C13_Witness ==
    /\ mode = LEARN
    /\ commandCount = MAX_COMMANDS
    /\ Printed(out, "Command list is full.")
    /\ ToUpper(command[1]) = "F"
    /\ motor # ActionPins(motor, "F")

(***************************************************************************)
(* C14. Action lines are accepted only in learn mode: received in idle or  *)
(* replay mode they change nothing (the iteration of loop() does what one  *)
(* with no input would have done at the same clock value).  The buffer     *)
(* (contents and length) changes only by a LEARN command or by an accepted *)
(* append in learn mode; in particular no replay tick modifies it.         *)
(***************************************************************************)
SameAsInputless ==
    LET s == ReplayTick(Cur, now')
    IN  /\ mode' = s.mode
        /\ commandList' = s.commandList
        /\ commandCount' = s.commandCount
        /\ replayIndex' = s.replayIndex
        /\ commandStartTime' = s.commandStartTime
        /\ isReplaying' = s.isReplaying
        /\ motor' = s.motor

C14_ActionLinesOnlyInLearn ==
    [][ /\ (mode # LEARN /\ command' # NoLine /\ ~IsModeCommand(command'))
           => /\ SameAsInputless
              /\ commandList' = commandList
              /\ commandCount' = commandCount
              /\ mode = IDLE => Controller' = Controller
        /\ (commandList' # commandList \/ commandCount' # commandCount)
           => \/ IsKeyword(command', KwLearn)
              \/ (mode = LEARN /\ Printed(out', "Stored command"))
        /\ (mode = REPLAY /\ mode' = REPLAY)
           => (commandList' = commandList /\ commandCount' = commandCount)
      ]_vars

\* A well-formed action line arrived in the middle of a replayed step.
C14_Witness ==
    /\ mode = REPLAY
    /\ IsValidActionLine(command)
    /\ commandStartTime # 0
    /\ commandCount < MAX_COMMANDS

(***************************************************************************)
(* C15. Whenever the mode is idle both motor speeds are 0: initially,      *)
(* after STOP from any mode, and after a replay has finished.              *)
(***************************************************************************)
C15_IdleMeansStopped == mode = IDLE => Stopped(motor)

\* Idle was entered by a replay that drove forward and then finished.
C15_Witness ==
    /\ mode = IDLE
    /\ Printed(out, "Replay finished.")
    /\ motor.IN1 = HIGH
    /\ drives[0] = 1


(***************************************************************************)
(* C16. The actuator mapping at speed 150: Forward drives both motors      *)
(* forward, Backward both in reverse, Left sets the left speed to 0 and    *)
(* drives the right motor forward, Right drives the left motor forward and *)
(* sets the right speed to 0; any other action leaves every pin as it was. *)
(* It is applied where the code drives: on storing a step in learn mode    *)
(* and on starting a step in replay mode.                                  *)
(***************************************************************************)
LeftAt(m, speed, in1, in2) == m.left = speed /\ m.IN1 = in1 /\ m.IN2 = in2

RightAt(m, speed, in3, in4) == m.right = speed /\ m.IN3 = in3 /\ m.IN4 = in4

Mapped(a, before, after) ==
    CASE a = "F" -> LeftAt(after, 150, HIGH, LOW) /\ RightAt(after, 150, HIGH, LOW)
      [] a = "B" -> LeftAt(after, 150, LOW, HIGH) /\ RightAt(after, 150, LOW, HIGH)
      [] a = "L" -> after.left = 0 /\ RightAt(after, 150, HIGH, LOW)
      [] a = "R" -> LeftAt(after, 150, HIGH, LOW) /\ after.right = 0
      [] OTHER -> after = before

C16_ActuatorMapping ==
    [][ /\ (mode = LEARN /\ Printed(out', "Stored command"))
           => Mapped(commandList'[commandCount].action, motor, motor')
        /\ Printed(out', "Replaying command")
           => Mapped(commandList'[replayIndex'].action, motor, motor') ]_vars

\* An unknown action was executed and left a Right drive in place.
C16_Witness ==
    /\ Printed(out, "Unknown action")
    /\ LeftAt(motor, 150, HIGH, LOW)
    /\ RightAt(motor, 0, LOW, HIGH)


(***************************************************************************)
(* C17. In replay mode, with a step started by a tick that read the        *)
(* timestamp `now`, the following tick (reading now') finishes the step    *)
(* (motors stopped, index advanced, start time unset) if and only if       *)
(* now' - now >= duration, equality included; otherwise it leaves cursor   *)
(* and motors unchanged and does not issue the drive command again,        *)
(* whatever the timestamp of the start was.                                *)
(***************************************************************************)
C17_FinishIffDurationElapsed ==
    [][ ( /\ mode = REPLAY
          /\ Printed(out, "Replaying command")
          /\ ~IsModeCommand(command') )
        => IF USub(now', now) >= commandList[replayIndex].duration
           THEN /\ replayIndex' = replayIndex + 1
                /\ commandStartTime' = 0
                /\ Stopped(motor')
                /\ Printed(out', "Motors stopped.")
           ELSE /\ replayIndex' = replayIndex
                /\ commandStartTime' = commandStartTime
                /\ motor' = motor
                /\ ~Printed(out', "Replaying command") ]_vars

(***************************************************************************)
(* C19. Whenever the mode is replay and the start time of the cursor's     *)
(* step is set, that step was driven by the replay in progress: the        *)
(* elapsed-time check, and the stop and advance it leads to, only apply to *)
(* a step this replay started, so no recorded step is passed over without  *)
(* having been driven.                                                     *)
(***************************************************************************)
C19_TimedStepWasDriven ==
    /\ (mode = REPLAY /\ commandStartTime # 0 /\ replayIndex < commandCount)
       => drives[replayIndex] >= 1
    /\ mode = REPLAY
       => \A i \in 0..(replayIndex - 1) : drives[i] >= 1

(***************************************************************************)
(* C20. In every state with mode == 1: isReplaying is true, commandCount   *)
(* is at least 1 and 0 <= replayIndex <= commandCount, so the tick reads   *)
(* commandList[replayIndex] only within the recorded prefix and the        *)
(* controller is never in replay mode with the tick logic disabled.        *)
(***************************************************************************)
C20_ReplayCursorInRange ==
    mode = REPLAY =>
        /\ isReplaying
        /\ commandCount >= 1
        /\ commandCount <= MAX_COMMANDS
        /\ 0 <= replayIndex
        /\ replayIndex <= commandCount

\* The last step of a full buffer has been finished; the end is not yet
\* reported.
C20_Witness ==
    /\ mode = REPLAY
    /\ isReplaying
    /\ commandCount = MAX_COMMANDS
    /\ replayIndex = commandCount


(***************************************************************************)
(* C18. From any state in replay mode, unless a further line arrives, the  *)
(* controller eventually is in idle mode with both motors stopped; the     *)
(* "Replay finished." notice is printed once, by the iteration of loop()   *)
(* that takes the replay to idle, and by no other.  The replay states the  *)
(* first conjunct starts from are those left by an iteration that read no  *)
(* line; a replay state left by a line is followed by one of these or by   *)
(* another line.                                                           *)
(***************************************************************************)
C18_ReplayTerminates ==
    /\ (mode = REPLAY /\ command = NoLine)
          ~> ((mode = IDLE /\ Stopped(motor)) \/ command # NoLine)
    /\ [][ /\ Printed(out', "Replay finished.")
              => /\ mode = REPLAY
                 /\ mode' = IDLE
                 /\ Cardinality({i \in 1..Len(out') :
                                    out'[i] = "Replay finished."}) = 1
           /\ (mode = REPLAY /\ mode' = IDLE /\ ~IsKeyword(command', KwStop))
              => Printed(out', "Replay finished.") ]_vars

\* A replay of a full buffer ran to its end with no line arriving at the end.
C18_Witness ==
    /\ mode = IDLE
    /\ Printed(out, "Replay finished.")
    /\ command = NoLine
    /\ replayIndex = MAX_COMMANDS
    /\ \A i \in Slots : drives[i] = 1

=============================================================================
